---- MODULE Spec2Model ----
(***************************************************************************)
(* GpuOperatorReconciler (controller) against the cluster object store.    *)
(*                                                                         *)
(* One reconcile tick is a sequence of store calls (Get, Create, Update,   *)
(* Status().Update); every call is one atomic step, so that spec edits,    *)
(* delete requests, job completion, job expiry and concurrent creators     *)
(* interleave with a running tick.  The platform runs at most one tick per *)
(* resource identity at a time, and distinct identities in parallel.       *)
(*                                                                         *)
(* metav1.Now() timestamps of conditions are not modelled.                 *)
(***************************************************************************)
EXTENDS Integers, Sequences, FiniteSets, TLC

\* ---------------------------------------------------------------- bounds
MaxGeneration == 2

\* ------------------------------------------------------------- constants
finalizerName == "operator.kyma-project.io/gpu-operator-finalizer"
conditionTypeReady == "Ready"
conditionTypeInstalled == "Installed"
installJobName == "gpu-operator-install"
uninstallJobName == "gpu-operator-uninstall"
RequeueAfterSeconds == 10

StateReady == "Ready"
StateProcessing == "Processing"
StateError == "Error"
StateDeleting == "Deleting"

JobComplete == "Complete"
JobFailed == "Failed"
ConditionTrue == "True"
ConditionFalse == "False"

\* ------------------------------------------------------------- universes
Resources == {"a", "b"}
Namespaces == {"gpu-operator", "custom"}
SpecNamespaces == {"", "custom"}
Versions == {"570", "580"}
\* +kubebuilder:default="570"
DefaultDriverVersion == "570"
Messages == {"timeout"}
External == "external"

\* errors of the store, as the one-element chain of their reason
ErrNotFound == <<"NotFound">>
ErrAlreadyExists == <<"AlreadyExists">>
ErrConflict == <<"Conflict">>
ErrUnavailable == <<"Unavailable">>
ErrCrossNamespace == <<"cross-namespace owner references are disallowed">>
NoErr == <<>>

VARIABLES
    cr,         \* the GpuOperator objects in the store, by identity
    ns,         \* Namespace objects, by name
    sa,         \* ServiceAccount "gpu-operator", by namespace
    job,        \* Job installJobName, by namespace
    uninstall,  \* Job uninstallJobName, by namespace
    tick,       \* the running Reconcile invocation of each identity
    result,     \* what the last finished Reconcile of each identity returned
    ensured,    \* history: generation whose dependents the last tick left in place
    recording   \* whether result, ensured and the ticks' counters are kept

vars == <<cr, ns, sa, job, uninstall, tick, result, ensured, recording>>

\* ------------------------------------------------------------ data model
EmptyStatus ==
    [state |-> "", conditions |-> <<>>, installedVersion |-> "",
     observedGeneration |-> 0]

\* a GpuOperator as the user creates it, in the namespace it installs into
\* (metadata.namespace is the record's own namespace field)
NewGpuOperator(n, v) ==
    [exists |-> TRUE, generation |-> 1, deletionTimestamp |-> FALSE,
     namespace |-> IF n = "" THEN "gpu-operator" ELSE n,
     finalizers |-> {},
     spec |-> [driverVersion |-> v, namespace |-> n],
     status |-> EmptyStatus]

NoGpuOperator ==
    [exists |-> FALSE, generation |-> 0, deletionTimestamp |-> FALSE,
     namespace |-> "",
     finalizers |-> {},
     spec |-> [driverVersion |-> "", namespace |-> ""],
     status |-> EmptyStatus]

NoJob == [exists |-> FALSE, owner |-> "", conditions |-> <<>>, gen |-> 0]

NewJob(owner) ==
    [exists |-> TRUE, owner |-> owner, conditions |-> <<>>, gen |-> 0]

\* the install Job of createHelmInstallJob; gen is history: the generation
\* of the GpuOperator the creating tick had loaded
Submitted(owner, g) == [NewJob(owner) EXCEPT !.gen = g]

JobCondition(t, m) == [type |-> t, status |-> ConditionTrue, message |-> m]

IdleTick ==
    [pc |-> "idle", obj |-> NoGpuOperator, fresh |-> FALSE, err |-> NoErr,
     creates |-> 0, b2b |-> FALSE]

\* mutant: an empty spec.namespace defaults to another namespace
TargetNamespace_OtherDefault(obj) ==
    IF obj.spec.namespace = "" THEN "custom" ELSE obj.spec.namespace

\* namespace := spec.namespace, "gpu-operator" when empty
TargetNamespace(obj) ==
    IF obj.spec.namespace = "" THEN "gpu-operator" ELSE obj.spec.namespace

ContainsFinalizer(obj) == finalizerName \in obj.finalizers

\* ------------------------------------------------------ status contents
\* mutant: the Ready write keeps the installedVersion that was loaded
ReadyStatus_StaleVersion(obj) ==
    [state |-> StateReady,
     conditions |->
        << [type |-> conditionTypeReady, status |-> ConditionTrue,
            reason |-> "GpuOperatorReady",
            message |-> <<"GPU Operator installed successfully following Gardener AI conformance guide">>,
            observedGeneration |-> obj.generation],
           [type |-> conditionTypeInstalled, status |-> ConditionTrue,
            reason |-> "HelmInstallComplete",
            message |-> <<"NVIDIA GPU Operator installed via Helm with Garden Linux optimized values">>,
            observedGeneration |-> obj.generation] >>,
     installedVersion |-> obj.status.installedVersion,
     observedGeneration |-> obj.generation]

\* mutant: the Ready write leaves status.observedGeneration as it was loaded
ReadyStatus_KeepsObserved(obj) ==
    [state |-> StateReady,
     conditions |-> obj.status.conditions,
     installedVersion |-> obj.spec.driverVersion,
     observedGeneration |-> obj.status.observedGeneration]

\* Reconcile, "Update status to Ready": state, the two conditions, versions
ReadyStatus(obj) ==
    [state |-> StateReady,
     conditions |->
        << [type |-> conditionTypeReady, status |-> ConditionTrue,
            reason |-> "GpuOperatorReady",
            message |-> <<"GPU Operator installed successfully following Gardener AI conformance guide">>,
            observedGeneration |-> obj.generation],
           [type |-> conditionTypeInstalled, status |-> ConditionTrue,
            reason |-> "HelmInstallComplete",
            message |-> <<"NVIDIA GPU Operator installed via Helm with Garden Linux optimized values">>,
            observedGeneration |-> obj.generation] >>,
     installedVersion |-> obj.spec.driverVersion,
     observedGeneration |-> obj.generation]

\* mutant: the Processing write starts from an empty status
ProcessingStatus_Fresh(obj) == [EmptyStatus EXCEPT !.state = StateProcessing]

\* Reconcile, "Set status to Processing": only the state field is assigned
ProcessingStatus(obj) == [obj.status EXCEPT !.state = StateProcessing]

\* mutant: the Deleting write starts from an empty status
DeletingStatus_Fresh(obj) == [EmptyStatus EXCEPT !.state = StateDeleting]

\* finalizeGpuOperator, "Set status to Deleting": only the state field
DeletingStatus(obj) == [obj.status EXCEPT !.state = StateDeleting]

\* mutant: the failure condition is appended to the loaded conditions
ErrorStatus_Append(obj, err) ==
    [obj.status EXCEPT
        !.state = StateError,
        !.conditions = Append(@,
            [type |-> conditionTypeReady, status |-> ConditionFalse,
             reason |-> "ReconciliationFailed", message |-> err,
             observedGeneration |-> obj.generation])]

\* updateStatusError: state and a one-element condition list
ErrorStatus(obj, err) ==
    [obj.status EXCEPT
        !.state = StateError,
        !.conditions =
            << [type |-> conditionTypeReady, status |-> ConditionFalse,
                reason |-> "ReconciliationFailed",
                message |-> err,
                observedGeneration |-> obj.generation] >>]

\* fmt.Errorf("<prefix>: %w", err)
Wrap(prefix, err) == <<prefix>> \o err

\* isJobCompleted, the loop over job.Status.Conditions: the first condition
\* that is Complete=True or Failed=True decides
RECURSIVE JobOutcome(_)
JobOutcome(conds) ==
    IF conds = <<>> THEN [ready |-> FALSE, err |-> NoErr]
    ELSE LET c == Head(conds) IN
         IF c.type = JobComplete /\ c.status = ConditionTrue
         THEN [ready |-> TRUE, err |-> NoErr]
         ELSE IF c.type = JobFailed /\ c.status = ConditionTrue
         THEN [ready |-> FALSE,
               err |-> <<"helm installation job failed: ", c.message>>]
         ELSE JobOutcome(Tail(conds))

\* ------------------------------------------------------------ the store
\* outcome of a store call apart from what the stored objects decide
ApiOutcomes == {"ok", "unavailable"}

\* mutant: the store accepts a write from a copy of any version
CanWrite_Unversioned(r) == cr[r].exists

\* optimistic concurrency: a write of the managed resource is accepted when
\* the object is still stored and the tick's copy has its resourceVersion
CanWrite(r) == cr[r].exists /\ tick[r].fresh

\* a write by somebody else makes the copy of a running tick stale
Stale(t) == IF t.pc = "idle" THEN t ELSE [t EXCEPT !.fresh = FALSE]

\* a dependent of namespace n went away: no tick in flight is back-to-back
Disturbed(t, n) ==
    IF t.pc # "idle" /\ TargetNamespace(t.obj) = n
    THEN [t EXCEPT !.b2b = FALSE] ELSE t

\* ---------------------------------------------------------------- Init
OneGpuOperator ==
    /\ \E n \in SpecNamespaces :
          cr = [r \in Resources |->
                   IF r = "a" THEN NewGpuOperator(n, DefaultDriverVersion)
                   ELSE NoGpuOperator]
    /\ ns = [n \in Namespaces |-> FALSE]
    /\ sa = [n \in Namespaces |-> FALSE]
    /\ job = [n \in Namespaces |-> NoJob]
    /\ uninstall = [n \in Namespaces |-> "absent"]
    /\ tick = [r \in Resources |-> IdleTick]
    /\ result = [r \in Resources |-> "none"]
    /\ ensured = [r \in Resources |-> 0]

Init == OneGpuOperator /\ recording = TRUE

\* the same store, without the history
LiveInit == OneGpuOperator /\ recording = FALSE

\* ------------------------------------------------------- Reconcile steps
Return(r, res) ==
    /\ tick' = [tick EXCEPT ![r] = IdleTick]
    /\ result' = IF recording THEN [result EXCEPT ![r] = res] ELSE result

Goto(r, pc, obj) ==
    /\ tick' = [tick EXCEPT ![r].pc = pc, ![r].obj = obj]
    /\ UNCHANGED result

\* mutant: the Processing write is left out
AfterFinalizer_SkipProcessing(obj) == "get_ns"

\* after the finalizer is in place: the Processing write, or the namespace
AfterFinalizer(obj) ==
    IF obj.status.state # StateProcessing THEN "set_processing" ELSE "get_ns"

\* mutant: the finalizer is looked at before the deletion timestamp
Load_FinalizerFirst(r, api) ==
    /\ tick[r].pc = "idle"
    /\ UNCHANGED <<cr, ns, sa, job, uninstall, ensured, recording>>
    /\ IF api # "ok" THEN Return(r, "error")
       ELSE IF ~cr[r].exists THEN Return(r, "done")
       ELSE LET obj == cr[r]
                pc == IF ~ContainsFinalizer(obj) THEN "add_finalizer"
                      ELSE IF obj.deletionTimestamp THEN "finalize_status"
                      ELSE AfterFinalizer(obj)
            IN /\ tick' = [tick EXCEPT ![r] =
                     [pc |-> pc, obj |-> obj, fresh |-> TRUE,
                      err |-> NoErr, creates |-> 0,
                      b2b |-> (recording /\ ensured[r] = obj.generation)]]
               /\ UNCHANGED result

\* mutant: the deletion branch goes to the finalizer update at once
Load_NoTeardown(r, api) ==
    /\ tick[r].pc = "idle"
    /\ UNCHANGED <<cr, ns, sa, job, uninstall, ensured, recording>>
    /\ IF api # "ok" THEN Return(r, "error")
       ELSE IF ~cr[r].exists THEN Return(r, "done")
       ELSE LET obj == cr[r]
                pc == IF obj.deletionTimestamp
                      THEN IF ContainsFinalizer(obj)
                           THEN "remove_finalizer" ELSE "idle"
                      ELSE IF ~ContainsFinalizer(obj)
                           THEN "add_finalizer" ELSE AfterFinalizer(obj)
            IN IF pc = "idle" THEN Return(r, "done")
               ELSE /\ tick' = [tick EXCEPT ![r] =
                          [pc |-> pc, obj |-> obj, fresh |-> TRUE,
                           err |-> NoErr, creates |-> 0,
                           b2b |-> (recording /\ ensured[r] = obj.generation)]]
                    /\ UNCHANGED result

\* r.Get of the GpuOperator and the branch on the deletion timestamp
Load(r, api) ==
    /\ tick[r].pc = "idle"
    /\ UNCHANGED <<cr, ns, sa, job, uninstall, ensured, recording>>
    /\ IF api # "ok" THEN Return(r, "error")
         ELSE IF ~cr[r].exists THEN Return(r, "done")
         ELSE LET obj == cr[r]
                  pc == IF obj.deletionTimestamp
                        THEN IF ContainsFinalizer(obj)
                             THEN "finalize_status" ELSE "idle"
                        ELSE IF ~ContainsFinalizer(obj)
                             THEN "add_finalizer" ELSE AfterFinalizer(obj)
              IN IF pc = "idle" THEN Return(r, "done")
                 ELSE /\ tick' = [tick EXCEPT ![r] =
                            [pc |-> pc, obj |-> obj, fresh |-> TRUE,
                             err |-> NoErr, creates |-> 0,
                             b2b |-> (recording /\ ensured[r] = obj.generation)]]
                      /\ UNCHANGED result

\* mutant: the finalizer is added to the tick's copy and never stored
AddFinalizer_NotPersisted(r, api) ==
    /\ tick[r].pc = "add_finalizer"
    /\ UNCHANGED <<cr, ns, sa, job, uninstall, ensured, recording>>
    /\ LET obj == [tick[r].obj EXCEPT !.finalizers = @ \cup {finalizerName}]
       IN Goto(r, AfterFinalizer(obj), obj)

\* mutant: the finalizer update stores the tick's copy whatever its version
AddFinalizer_Overwrite(r, api) ==
    /\ tick[r].pc = "add_finalizer"
    /\ UNCHANGED <<ns, sa, job, uninstall, ensured, recording>>
    /\ IF api = "ok" /\ cr[r].exists
       THEN /\ cr' = [cr EXCEPT ![r] =
                        [tick[r].obj EXCEPT
                            !.finalizers = @ \cup {finalizerName}]]
            /\ Goto(r, AfterFinalizer(cr'[r]), cr'[r])
       ELSE /\ UNCHANGED cr
            /\ Return(r, "error")

\* "Add finalizer if not present": AddFinalizer and r.Update
AddFinalizer(r, api) ==
    /\ tick[r].pc = "add_finalizer"
    /\ UNCHANGED <<ns, sa, job, uninstall, ensured, recording>>
    /\ IF api = "ok" /\ CanWrite(r)
         THEN /\ cr' = [cr EXCEPT ![r].finalizers = @ \cup {finalizerName}]
              /\ Goto(r, AfterFinalizer(cr'[r]), cr'[r])
         ELSE /\ UNCHANGED cr
              /\ Return(r, "error")

\* mutant: a failed Processing write goes through updateStatusError
SetProcessing_ReportsError(r, api) ==
    /\ tick[r].pc = "set_processing"
    /\ UNCHANGED <<ns, sa, job, uninstall, ensured, recording>>
    /\ IF api = "ok" /\ CanWrite(r)
       THEN /\ cr' = [cr EXCEPT ![r].status = ProcessingStatus(tick[r].obj)]
            /\ Goto(r, "get_ns", cr'[r])
       ELSE /\ UNCHANGED cr
            /\ tick' = [tick EXCEPT ![r].pc = "status_error",
                                    ![r].err = ErrUnavailable]
            /\ UNCHANGED result

\* "Set status to Processing": r.Status().Update
SetProcessing(r, api) ==
    /\ tick[r].pc = "set_processing"
    /\ UNCHANGED <<ns, sa, job, uninstall, ensured, recording>>
    /\ IF api = "ok" /\ CanWrite(r)
         THEN /\ cr' = [cr EXCEPT ![r].status = ProcessingStatus(tick[r].obj)]
              /\ Goto(r, "get_ns", cr'[r])
         ELSE /\ UNCHANGED cr
              /\ Return(r, "error")

Fail(r, err) ==
    /\ tick' = [tick EXCEPT ![r].pc = "status_error", ![r].err = err]
    /\ UNCHANGED result

Ensured(r, g) ==
    ensured' = IF recording THEN [ensured EXCEPT ![r] = g] ELSE ensured

Created(r) == IF recording THEN [tick EXCEPT ![r].creates = @ + 1] ELSE tick

\* "Create namespace if it doesn't exist": r.Get of the Namespace
GetNamespace(r, api) ==
    /\ tick[r].pc = "get_ns"
    /\ UNCHANGED <<cr, ns, sa, job, uninstall, ensured, recording>>
    /\ IF api # "ok" THEN Fail(r, ErrUnavailable)
         ELSE IF ns[TargetNamespace(tick[r].obj)]
              THEN Goto(r, "get_sa", tick[r].obj)
              ELSE Goto(r, "create_ns", tick[r].obj)

\* r.Create of the Namespace; AlreadyExists is not an error here
CreateNamespace(r, api) ==
    LET n == TargetNamespace(tick[r].obj) IN
    /\ tick[r].pc = "create_ns"
    /\ UNCHANGED <<cr, sa, job, uninstall, ensured, result, recording>>
    /\ IF api # "ok"
         THEN /\ tick' = [Created(r) EXCEPT ![r].pc = "status_error",
                                            ![r].err = ErrUnavailable]
              /\ UNCHANGED ns
         ELSE /\ ns' = [ns EXCEPT ![n] = TRUE]
              /\ tick' = [Created(r) EXCEPT ![r].pc = "get_sa"]

\* ensureServiceAccount: r.Get of the ServiceAccount
GetServiceAccount(r, api) ==
    /\ tick[r].pc = "get_sa"
    /\ UNCHANGED <<cr, ns, sa, job, uninstall, ensured, recording>>
    /\ IF api # "ok" THEN Fail(r, ErrUnavailable)
         ELSE IF sa[TargetNamespace(tick[r].obj)]
              THEN Goto(r, "get_job", tick[r].obj)
              ELSE Goto(r, "create_sa", tick[r].obj)

\* ensureServiceAccount: return r.Create(ctx, sa)
CreateServiceAccount(r, api) ==
    LET n == TargetNamespace(tick[r].obj) IN
    /\ tick[r].pc = "create_sa"
    /\ UNCHANGED <<cr, ns, job, uninstall, ensured, result, recording>>
    /\ IF api # "ok" \/ sa[n]
         THEN /\ tick' = [Created(r) EXCEPT
                    ![r].pc = "status_error",
                    ![r].err = IF api # "ok" THEN ErrUnavailable
                               ELSE ErrAlreadyExists]
              /\ UNCHANGED sa
         ELSE /\ sa' = [sa EXCEPT ![n] = TRUE]
              /\ tick' = [Created(r) EXCEPT ![r].pc = "get_job"]

\* mutant: the install Job is created without looking for an existing one
GetJob_NoLookup(r, api) ==
    /\ tick[r].pc = "get_job"
    /\ UNCHANGED <<cr, ns, sa, job, uninstall, ensured, recording>>
    /\ Goto(r, "create_job", tick[r].obj)

\* controllerutil.SetControllerReference: a namespaced owner can only own
\* an object of its own namespace
OwnerAllowed(obj, n) == obj.namespace = n

\* createHelmInstallJob: SetControllerReference, then "Check if job already
\* exists": r.Get of the Job
GetJob(r, api) ==
    LET n == TargetNamespace(tick[r].obj) IN
    /\ tick[r].pc = "get_job"
    /\ UNCHANGED <<cr, ns, sa, job, uninstall, recording>>
    /\ IF ~OwnerAllowed(tick[r].obj, n)
         THEN /\ Fail(r, Wrap("failed to set owner reference: ",
                              ErrCrossNamespace))
              /\ UNCHANGED ensured
         ELSE IF api # "ok"
         THEN /\ Fail(r, Wrap("failed to get existing job: ", ErrUnavailable))
              /\ UNCHANGED ensured
         ELSE IF job[n].exists
              THEN /\ Goto(r, "poll", tick[r].obj)
                   /\ Ensured(r, tick[r].obj.generation)
              ELSE /\ Goto(r, "create_job", tick[r].obj)
                   /\ UNCHANGED ensured

\* createHelmInstallJob: r.Create of the Job, owned by the GpuOperator
CreateJob(r, api) ==
    LET n == TargetNamespace(tick[r].obj) IN
    /\ tick[r].pc = "create_job"
    /\ UNCHANGED <<cr, ns, sa, uninstall, result, recording>>
    /\ IF api # "ok" \/ job[n].exists
         THEN /\ tick' = [Created(r) EXCEPT
                    ![r].pc = "status_error",
                    ![r].err = Wrap("failed to create job: ",
                                    IF api # "ok" THEN ErrUnavailable
                                    ELSE ErrAlreadyExists)]
              /\ UNCHANGED <<job, ensured>>
         ELSE /\ job' = [job EXCEPT ![n] =
                           Submitted(r, IF recording
                                        THEN tick[r].obj.generation ELSE 0)]
              /\ tick' = [Created(r) EXCEPT ![r].pc = "poll"]
              /\ Ensured(r, tick[r].obj.generation)

\* mutant: a Job that is not ready ends the tick without a requeue
Poll_NoRequeue(r, api) ==
    LET n == TargetNamespace(tick[r].obj) IN
    /\ tick[r].pc = "poll"
    /\ UNCHANGED <<cr, ns, sa, job, uninstall, ensured, recording>>
    /\ IF api # "ok" THEN Fail(r, ErrUnavailable)
       ELSE IF ~job[n].exists THEN Return(r, "done")
       ELSE LET out == JobOutcome(job[n].conditions) IN
            IF out.err # NoErr THEN Fail(r, out.err)
            ELSE IF out.ready THEN Goto(r, "set_ready", tick[r].obj)
            ELSE Return(r, "done")

\* isJobCompleted and the branch on jobReady
Poll(r, api) ==
    LET n == TargetNamespace(tick[r].obj) IN
    /\ tick[r].pc = "poll"
    /\ UNCHANGED <<cr, ns, sa, job, uninstall, ensured, recording>>
    /\ IF api # "ok" THEN Fail(r, ErrUnavailable)
         ELSE IF ~job[n].exists THEN Return(r, "requeueAfter")
         ELSE LET out == JobOutcome(job[n].conditions) IN
              IF out.err # NoErr THEN Fail(r, out.err)
              ELSE IF out.ready THEN Goto(r, "set_ready", tick[r].obj)
              ELSE Return(r, "requeueAfter")

\* "Update status to Ready": r.Status().Update
SetReady(r, api) ==
    /\ tick[r].pc = "set_ready"
    /\ UNCHANGED <<ns, sa, job, uninstall, ensured, recording>>
    /\ IF api = "ok" /\ CanWrite(r)
         THEN /\ cr' = [cr EXCEPT ![r].status = ReadyStatus(tick[r].obj)]
              /\ Return(r, "done")
         ELSE /\ UNCHANGED cr
              /\ Return(r, "error")

\* updateStatusError: the status write may fail, err is returned anyway
UpdateStatusError(r, api) ==
    /\ tick[r].pc = "status_error"
    /\ UNCHANGED <<ns, sa, job, uninstall, ensured, recording>>
    /\ Return(r, "error")
    /\ IF api = "ok" /\ CanWrite(r)
         THEN cr' = [cr EXCEPT ![r].status =
                        ErrorStatus(tick[r].obj, tick[r].err)]
         ELSE UNCHANGED cr

\* mutant: a failed Deleting write is returned to the caller
FinalizeStatus_Blocking(r, api) ==
    /\ tick[r].pc = "finalize_status"
    /\ UNCHANGED <<ns, sa, job, uninstall, ensured, recording>>
    /\ IF api = "ok" /\ CanWrite(r)
       THEN /\ cr' = [cr EXCEPT ![r].status = DeletingStatus(tick[r].obj)]
            /\ Goto(r, "create_uninstall", cr'[r])
       ELSE /\ UNCHANGED cr
            /\ Return(r, "error")

\* finalizeGpuOperator, "Set status to Deleting": a failed write is logged
FinalizeStatus(r, api) ==
    /\ tick[r].pc = "finalize_status"
    /\ UNCHANGED <<ns, sa, job, uninstall, ensured, recording>>
    /\ IF api = "ok" /\ CanWrite(r)
         THEN /\ cr' = [cr EXCEPT ![r].status = DeletingStatus(tick[r].obj)]
              /\ Goto(r, "create_uninstall", cr'[r])
         ELSE /\ UNCHANGED cr
              /\ Goto(r, "create_uninstall",
                      [tick[r].obj EXCEPT !.status = DeletingStatus(tick[r].obj)])

\* mutant: an uninstall Job that is already there is an error
CreateUninstall_ExistsIsError(r, api) ==
    LET n == TargetNamespace(tick[r].obj) IN
    /\ tick[r].pc = "create_uninstall"
    /\ UNCHANGED <<cr, ns, sa, job, ensured, recording>>
    /\ IF uninstall[n] # "absent"
       THEN /\ UNCHANGED uninstall
            /\ Return(r, "error")
       ELSE /\ Goto(r, "remove_finalizer", tick[r].obj)
            /\ IF api = "ok" /\ ns[n]
               THEN uninstall' = [uninstall EXCEPT ![n] = "active"]
               ELSE UNCHANGED uninstall

\* mutant: a failed creation of the uninstall Job is returned to the caller
CreateUninstall_Blocking(r, api) ==
    LET n == TargetNamespace(tick[r].obj) IN
    /\ tick[r].pc = "create_uninstall"
    /\ UNCHANGED <<cr, ns, sa, job, ensured, recording>>
    /\ IF api = "ok" /\ ns[n]
       THEN /\ uninstall' = [uninstall EXCEPT ![n] =
                                IF @ = "absent" THEN "active" ELSE @]
            /\ Goto(r, "remove_finalizer", tick[r].obj)
       ELSE /\ UNCHANGED uninstall
            /\ Return(r, "error")

\* finalizeGpuOperator: r.Create of the uninstall Job; every error is logged
CreateUninstall(r, api) ==
    LET n == TargetNamespace(tick[r].obj) IN
    /\ tick[r].pc = "create_uninstall"
    /\ UNCHANGED <<cr, ns, sa, job, ensured, recording>>
    /\ Goto(r, "remove_finalizer", tick[r].obj)
    /\ IF api = "ok" /\ ns[n] /\ uninstall[n] = "absent"
         THEN uninstall' = [uninstall EXCEPT ![n] = "active"]
         ELSE UNCHANGED uninstall

\* "Remove finalizer": RemoveFinalizer and r.Update; the store drops an
\* object that is marked for deletion once its last finalizer is gone
RemoveFinalizer(r, api) ==
    /\ tick[r].pc = "remove_finalizer"
    /\ UNCHANGED <<ns, sa, job, uninstall, recording>>
    /\ IF api = "ok" /\ CanWrite(r)
         THEN /\ IF cr[r].finalizers \ {finalizerName} = {}
                 THEN /\ cr' = [cr EXCEPT ![r] = NoGpuOperator]
                      /\ ensured' = [ensured EXCEPT ![r] = 0]
                 ELSE /\ cr' = [cr EXCEPT ![r].finalizers =
                                              @ \ {finalizerName}]
                      /\ UNCHANGED ensured
              /\ Return(r, "done")
         ELSE /\ UNCHANGED <<cr, ensured>>
              /\ Return(r, "error")

ReconcileStep(r, api) ==
    \/ Load(r, api)
    \/ AddFinalizer(r, api)
    \/ SetProcessing(r, api)
    \/ GetNamespace(r, api)
    \/ CreateNamespace(r, api)
    \/ GetServiceAccount(r, api)
    \/ CreateServiceAccount(r, api)
    \/ GetJob(r, api)
    \/ CreateJob(r, api)
    \/ Poll(r, api)
    \/ SetReady(r, api)
    \/ UpdateStatusError(r, api)
    \/ FinalizeStatus(r, api)
    \/ CreateUninstall(r, api)
    \/ RemoveFinalizer(r, api)

Reconcile(r) == \E api \in ApiOutcomes : ReconcileStep(r, api)

\* ------------------------------------------------------- the environment
Targeted(n) == \E r \in Resources : cr[r].exists /\ TargetNamespace(cr[r]) = n

\* a user changes spec.driverVersion; the store bumps metadata.generation
SpecEdit(r) ==
    /\ cr[r].exists
    /\ cr[r].generation < MaxGeneration
    /\ \E v \in Versions \ {cr[r].spec.driverVersion} :
         cr' = [cr EXCEPT ![r].spec.driverVersion = v,
                          ![r].generation = @ + 1]
    /\ tick' = [tick EXCEPT ![r] = Stale(@)]
    /\ UNCHANGED <<ns, sa, job, uninstall, result, ensured, recording>>

\* mutant: marking the resource for deletion keeps its resourceVersion
DeleteRequest_SameVersion(r) ==
    /\ cr[r].exists
    /\ ~cr[r].deletionTimestamp
    /\ IF cr[r].finalizers # {}
       THEN /\ cr' = [cr EXCEPT ![r].deletionTimestamp = TRUE]
            /\ UNCHANGED ensured
       ELSE /\ cr' = [cr EXCEPT ![r] = NoGpuOperator]
            /\ ensured' = [ensured EXCEPT ![r] = 0]
    /\ UNCHANGED <<ns, sa, job, uninstall, tick, result, recording>>

\* a user deletes the resource: the store sets the deletion timestamp, or
\* drops the object at once when it carries no finalizer
DeleteRequest(r) ==
    /\ cr[r].exists
    /\ ~cr[r].deletionTimestamp
    /\ IF cr[r].finalizers # {}
       THEN /\ cr' = [cr EXCEPT ![r].deletionTimestamp = TRUE]
            /\ UNCHANGED ensured
       ELSE /\ cr' = [cr EXCEPT ![r] = NoGpuOperator]
            /\ ensured' = [ensured EXCEPT ![r] = 0]
    /\ tick' = [tick EXCEPT ![r] = Stale(@)]
    /\ UNCHANGED <<ns, sa, job, uninstall, result, recording>>

\* the job controller reports the install Job complete
JobSucceeds(n) ==
    /\ job[n].exists
    /\ job[n].conditions = <<>>
    /\ job' = [job EXCEPT ![n].conditions = <<JobCondition(JobComplete, "")>>]
    /\ UNCHANGED <<cr, ns, sa, uninstall, tick, result, ensured, recording>>

\* the job controller reports the install Job failed (BackoffLimit used up)
JobFails(n) ==
    /\ job[n].exists
    /\ job[n].conditions = <<>>
    /\ \E m \in Messages :
         job' = [job EXCEPT ![n].conditions = <<JobCondition(JobFailed, m)>>]
    /\ UNCHANGED <<cr, ns, sa, uninstall, tick, result, ensured, recording>>

Forget(n) ==
    /\ ensured' = [r \in Resources |->
                      IF TargetNamespace(cr[r]) = n THEN 0 ELSE ensured[r]]
    /\ tick' = [r \in Resources |-> Disturbed(tick[r], n)]

\* TTLSecondsAfterFinished: a finished install Job is removed
JobExpire(n) ==
    /\ job[n].exists
    /\ job[n].conditions # <<>>
    /\ job' = [job EXCEPT ![n] = NoJob]
    /\ Forget(n)
    /\ UNCHANGED <<cr, ns, sa, uninstall, result, recording>>

\* owner reference: the install Job goes with the GpuOperator that owns it
GarbageCollect(n) ==
    /\ job[n].exists
    /\ job[n].owner \in Resources
    /\ ~cr[job[n].owner].exists
    /\ job' = [job EXCEPT ![n] = NoJob]
    /\ Forget(n)
    /\ UNCHANGED <<cr, ns, sa, uninstall, result, recording>>

\* the uninstall Job ends, and is removed by its TTLSecondsAfterFinished
UninstallFinishes(n) ==
    /\ uninstall[n] = "active"
    /\ uninstall' = [uninstall EXCEPT ![n] = "finished"]
    /\ UNCHANGED <<cr, ns, sa, job, tick, result, ensured, recording>>

UninstallExpire(n) ==
    /\ uninstall[n] = "finished"
    /\ uninstall' = [uninstall EXCEPT ![n] = "absent"]
    /\ UNCHANGED <<cr, ns, sa, job, tick, result, ensured, recording>>

\* a concurrent creator makes a dependent of a targeted namespace
ConcurrentCreate(n) ==
    /\ Targeted(n)
    /\ \/ ~ns[n] /\ ns' = [ns EXCEPT ![n] = TRUE] /\ UNCHANGED <<sa, job>>
       \/ ns[n] /\ ~sa[n] /\ sa' = [sa EXCEPT ![n] = TRUE]
             /\ UNCHANGED <<ns, job>>
       \/ ns[n] /\ ~job[n].exists /\ job' = [job EXCEPT ![n] = NewJob(External)]
             /\ UNCHANGED <<ns, sa>>
    /\ UNCHANGED <<cr, uninstall, tick, result, ensured, recording>>

Environment ==
    \/ \E r \in Resources : SpecEdit(r)
    \/ \E r \in Resources : DeleteRequest(r)
    \/ \E n \in Namespaces : JobSucceeds(n)
    \/ \E n \in Namespaces : JobFails(n)
    \/ \E n \in Namespaces : JobExpire(n)
    \/ \E n \in Namespaces : GarbageCollect(n)
    \/ \E n \in Namespaces : UninstallFinishes(n)
    \/ \E n \in Namespaces : UninstallExpire(n)
    \/ \E n \in Namespaces : ConcurrentCreate(n)

Next == (\E r \in Resources : Reconcile(r)) \/ Environment

Spec == Init /\ [][Next]_vars

\* Requeue: a returned error, a requeue-after and every store event of the
\* resource bring a further tick, and a started tick runs to its return; the
\* store does not refuse the load and the finalizer update for ever.
Fairness ==
    \A r \in Resources :
        /\ WF_vars(Reconcile(r))
        /\ SF_vars(Load(r, "ok"))
        /\ SF_vars(RemoveFinalizer(r, "ok"))

LiveSpec == LiveInit /\ [][Next]_vars /\ Fairness

\* ================================================================ claims
Status(r) == cr[r].status
InstallJob(r) == job[TargetNamespace(cr[r])]
Contains(msg, m) == \E i \in DOMAIN msg : msg[i] = m
IsJobFailure(err) == Len(err) = 2 /\ err[1] = "helm installation job failed: "

\* C1 (as stated): in every reachable state, status.state = Ready implies
\* status.observedGeneration = metadata.generation, also after a spec edit
\* has bumped the generation while the status still says Ready.
C1_ReadyImpliesCurrentGeneration ==
    \A r \in Resources :
        cr[r].exists /\ Status(r).state = StateReady
            => Status(r).observedGeneration = cr[r].generation

\* C1 (amended): the Ready write is only reached from a poll that saw the
\* install job Complete=True; every step that persists Ready, or changes a
\* persisted Ready status, sets observedGeneration to metadata.generation
\* of that moment; a persisted Ready never has observedGeneration above
\* metadata.generation, and the two stay equal in every step that does not
\* bump the generation.
C1_ReadyWrittenForCurrentGeneration ==
    [][\A r \in Resources :
        /\ (tick'[r].pc = "set_ready" /\ tick[r].pc # "set_ready")
              => /\ tick[r].pc = "poll"
                 /\ job[TargetNamespace(tick[r].obj)].exists
                 /\ \E i \in DOMAIN job[TargetNamespace(tick[r].obj)].conditions :
                       LET c == job[TargetNamespace(tick[r].obj)].conditions[i]
                       IN c.type = JobComplete /\ c.status = ConditionTrue
        /\ (cr'[r].exists /\ cr'[r].status.state = StateReady
                /\ cr'[r].status # cr[r].status)
              => /\ tick[r].pc = "set_ready"
                 /\ cr'[r].status.observedGeneration = cr'[r].generation
        /\ (cr'[r].exists /\ cr'[r].status.state = StateReady)
              => cr'[r].status.observedGeneration <= cr'[r].generation
        /\ (cr[r].exists /\ Status(r).state = StateReady
                /\ Status(r).observedGeneration = cr[r].generation
                /\ cr'[r].exists /\ cr'[r].status.state = StateReady
                /\ cr'[r].generation = cr[r].generation)
              => cr'[r].status.observedGeneration = cr'[r].generation
      ]_vars

\* C1 witness: Ready was persisted for generation 1 and a spec edit has
\* bumped the generation since.
C1_Witness ==
    \E r \in Resources :
        /\ cr[r].exists /\ Status(r).state = StateReady
        /\ Status(r).observedGeneration = 1 /\ cr[r].generation = 2

\* the resource is fully converged
Converged(r) ==
    /\ cr[r].exists /\ ~cr[r].deletionTimestamp /\ ContainsFinalizer(cr[r])
    /\ ns[TargetNamespace(cr[r])] /\ sa[TargetNamespace(cr[r])]
    /\ InstallJob(r).exists /\ JobOutcome(InstallJob(r).conditions).ready
    /\ Status(r) = ReadyStatus(cr[r])

\* C2 (as stated): a step taken while the resource is fully converged
\* leaves the persisted status and the dependents as they are, whatever
\* tick is running (the only changes are a user's spec edit or delete).
C2_ReconcileIdempotent ==
    [][\A r \in Resources :
        (Converged(r) /\ cr'[r].exists)
            => /\ cr'[r].status = cr[r].status
               /\ cr'[r].finalizers = cr[r].finalizers
      ]_vars

\* install of the current generation failed, and the status says so
InstallFailed(r) ==
    /\ cr[r].exists /\ Status(r).state = StateError
    /\ Len(Status(r).conditions) = 1
    /\ IsJobFailure(Status(r).conditions[1].message)
    /\ Status(r).conditions[1].observedGeneration = cr[r].generation

\* C3 (as stated): once Error is persisted for a Failed install job of
\* generation g, every step that keeps the generation (and is no delete)
\* leaves status.state = Error and creates no install job.
C3_NoAutomaticRetry ==
    [][\A r \in Resources :
        (InstallFailed(r) /\ cr'[r].exists
            /\ cr'[r].generation = cr[r].generation
            /\ ~cr'[r].deletionTimestamp)
            => /\ cr'[r].status.state = StateError
               /\ ~(~InstallJob(r).exists
                     /\ job'[TargetNamespace(cr[r])] =
                           Submitted(r, cr[r].generation))
      ]_vars

C6_ObservedGenerationMonotonic ==
    [][\A r \in Resources :
        /\ cr[r].exists => Status(r).observedGeneration <= cr[r].generation
        /\ cr'[r].exists
              => /\ cr'[r].status.observedGeneration <= cr'[r].generation
                 /\ cr'[r].status.observedGeneration
                        >= Status(r).observedGeneration
      ]_vars

\* C6 witness: observedGeneration has reached generation 2 and a later tick
\* has written Processing over that Ready status.
C6_Witness ==
    \E r \in Resources :
        /\ cr[r].exists /\ cr[r].generation = 2
        /\ Status(r).observedGeneration = 2
        /\ Status(r).state = StateProcessing

\* C7 (as stated): the persisted status is never Processing or Deleting
\* together with a Ready=True condition or a ReconciliationFailed condition.
C7_ConditionsFullyReplaced ==
    \A r \in Resources :
        (cr[r].exists /\ Status(r).state \in {StateProcessing, StateDeleting})
            => \A i \in DOMAIN Status(r).conditions :
                  LET c == Status(r).conditions[i] IN
                  /\ ~(c.type = conditionTypeReady /\ c.status = ConditionTrue)
                  /\ c.reason # "ReconciliationFailed"

\* C8 (as stated): no ensure step ends the tick with an error because its
\* create met AlreadyExists.
C8_CreateRaceIsSuccess ==
    \A r \in Resources :
        tick[r].pc = "status_error" => ~Contains(tick[r].err, "AlreadyExists")

\* C9: a tick that loads a resource marked for deletion and carrying the
\* finalizer writes Deleting, then attempts the uninstall job, then issues
\* the finalizer-removing update, whatever the first two calls returned;
\* the update, when the store accepts it, removes the finalizer.
C9_TeardownInOneTick ==
    [][\A r \in Resources :
        /\ (tick[r].pc = "idle" /\ tick'[r].pc # "idle" /\ cr[r].deletionTimestamp)
              => tick'[r].pc = "finalize_status"
        /\ (tick[r].pc = "finalize_status" /\ tick'[r].pc # "finalize_status")
              => tick'[r].pc = "create_uninstall"
        /\ (tick[r].pc = "create_uninstall" /\ tick'[r].pc # "create_uninstall")
              => tick'[r].pc = "remove_finalizer"
        /\ (tick[r].pc = "remove_finalizer" /\ tick'[r].pc # "remove_finalizer")
              => /\ tick'[r].pc = "idle"
                 /\ result'[r] \in {"done", "error"}
                 /\ result'[r] = "done" => ~ContainsFinalizer(cr'[r])
      ]_vars

\* C9 witness: the Deleting write failed, the uninstall job was not created,
\* the install job is still pending, and the tick is at the finalizer update.
C9_Witness ==
    \E r \in Resources :
        /\ tick[r].pc = "remove_finalizer" /\ tick[r].fresh
        /\ cr[r].exists /\ Status(r).state # StateDeleting
        /\ uninstall[TargetNamespace(cr[r])] = "absent"
        /\ InstallJob(r) = Submitted(r, 1)

\* C10: a poll that ends the tick with an error either met a store error or
\* a Failed=True condition whose message is in the error; the status write
\* for such a job failure persists state Error and exactly one condition:
\* Ready, False, ReconciliationFailed, the message in it, the generation.
C10_FailureStatusContent ==
    [][\A r \in Resources :
        /\ (tick[r].pc = "poll" /\ tick'[r].pc = "status_error")
              => \/ tick'[r].err = ErrUnavailable
                 \/ \E m \in Messages :
                       /\ job[TargetNamespace(tick[r].obj)].conditions
                              = <<JobCondition(JobFailed, m)>>
                       /\ IsJobFailure(tick'[r].err)
                       /\ Contains(tick'[r].err, m)
        /\ (tick[r].pc = "status_error" /\ IsJobFailure(tick[r].err)
                /\ cr'[r].exists /\ cr'[r].status # cr[r].status)
              => /\ cr'[r].status.state = StateError
                 /\ Len(cr'[r].status.conditions) = 1
                 /\ LET c == cr'[r].status.conditions[1] IN
                    /\ c.type = conditionTypeReady
                    /\ c.status = ConditionFalse
                    /\ c.reason = "ReconciliationFailed"
                    /\ c.message = tick[r].err
                    /\ c.observedGeneration = cr'[r].generation
      ]_vars

\* C10 witness: Error persisted for a job that failed with "timeout", over
\* a status that carried the two Ready conditions of generation 1.
C10_Witness ==
    \E r \in Resources :
        /\ InstallFailed(r) /\ cr[r].generation = 2
        /\ Contains(Status(r).conditions[1].message, "timeout")
        /\ Status(r).observedGeneration = 1

\* C4: once deletionTimestamp is set, the finalizer is eventually absent,
\* whatever the Deleting write, the uninstall job creation and the uninstall
\* job itself do.
C4_FinalizerEventuallyRemoved ==
    \A r \in Resources :
        (cr[r].exists /\ cr[r].deletionTimestamp)
            ~> ~ContainsFinalizer(cr[r])

\* C4 witness: marked for deletion with the finalizer, the Deleting write
\* did not go through and no uninstall job exists, at the finalizer update.
C4_Witness ==
    \E r \in Resources :
        /\ cr[r].exists /\ cr[r].deletionTimestamp /\ ContainsFinalizer(cr[r])
        /\ tick[r].pc = "remove_finalizer" /\ ~tick[r].fresh
        /\ Status(r).state = StateProcessing
        /\ uninstall[TargetNamespace(cr[r])] = "absent"

\* ------------------------------------- a resource somebody else holds too
\* a finalizer of another controller on the managed resource
foreignFinalizer == "example.com/other-finalizer"

\* the same start, the resource carrying the other controller's finalizer
ForeignInit ==
    /\ cr = [r \in Resources |->
                IF r = "a"
                THEN [NewGpuOperator("", DefaultDriverVersion) EXCEPT
                         !.finalizers = {foreignFinalizer}]
                ELSE NoGpuOperator]
    /\ ns = [n \in Namespaces |-> FALSE]
    /\ sa = [n \in Namespaces |-> FALSE]
    /\ job = [n \in Namespaces |-> NoJob]
    /\ uninstall = [n \in Namespaces |-> "absent"]
    /\ tick = [r \in Resources |-> IdleTick]
    /\ result = [r \in Resources |-> "none"]
    /\ ensured = [r \in Resources |-> 0]
    /\ recording = TRUE

\* the other controller removes its finalizer; the store drops an object
\* that is marked for deletion once its last finalizer is gone
ReleaseForeign(r) ==
    /\ cr[r].exists
    /\ foreignFinalizer \in cr[r].finalizers
    /\ IF cr[r].deletionTimestamp /\ cr[r].finalizers = {foreignFinalizer}
       THEN /\ cr' = [cr EXCEPT ![r] = NoGpuOperator]
            /\ ensured' = [ensured EXCEPT ![r] = 0]
       ELSE /\ cr' = [cr EXCEPT ![r].finalizers = @ \ {foreignFinalizer}]
            /\ UNCHANGED ensured
    /\ tick' = [tick EXCEPT ![r] = Stale(@)]
    /\ UNCHANGED <<ns, sa, job, uninstall, result, recording>>

ForeignNext == Next \/ \E r \in Resources : ReleaseForeign(r)

ForeignSpec == ForeignInit /\ [][ForeignNext]_vars

\* ------------------------------------------------------------ C11 .. C20
\* the install Job of a tick's target namespace has no terminal condition
Pending(r) ==
    LET j == job[TargetNamespace(tick[r].obj)] IN
    j.exists /\ JobOutcome(j.conditions) = [ready |-> FALSE, err |-> NoErr]

AllTrue(conds) == \A i \in DOMAIN conds : conds[i].status = ConditionTrue

\* C11: the happy path.  A tick on a resource whose spec.namespace is empty
\* works in namespace "gpu-operator"; the first tick on a fresh resource
\* goes to the finalizer update and, the store accepting its writes, persists
\* the finalizer and then state Processing; a poll that finds the install
\* Job without a terminal condition returns a requeue after the delay and
\* leaves the stored state Processing; the Ready write is reached only from
\* a poll that saw the Job complete, and persists state Ready,
\* installedVersion = spec.driverVersion and exactly two conditions, both
\* True.
C11_HappyPath ==
    [][\A r \in Resources :
        LET t == tick[r]
            u == tick'[r]
        IN
        /\ (t.pc = "create_ns" /\ u.pc = "get_sa" /\ t.obj.spec.namespace = "")
              => ns'["gpu-operator"] /\ ns'["custom"] = ns["custom"]
        /\ (t.pc = "create_job" /\ u.pc = "poll" /\ t.obj.spec.namespace = "")
              => /\ job'["gpu-operator"] = Submitted(r, t.obj.generation)
                 /\ job'["custom"] = job["custom"]
        /\ (t.pc = "idle" /\ u.pc # "idle" /\ cr[r].finalizers = {}
                /\ cr[r].status = EmptyStatus)
              => u.pc = "add_finalizer"
        /\ (t.pc = "add_finalizer" /\ u.pc \notin {"idle", t.pc})
              => /\ ContainsFinalizer(cr'[r])
                 /\ (cr[r].status = EmptyStatus => u.pc = "set_processing")
        /\ (t.pc = "set_processing" /\ u.pc \notin {"idle", t.pc})
              => /\ cr'[r].status.state = StateProcessing
                 /\ ContainsFinalizer(cr'[r])
                 /\ u.pc = "get_ns"
        /\ (t.pc = "poll" /\ u.pc = "idle" /\ Pending(r))
              => /\ result'[r] = "requeueAfter"
                 /\ cr'[r] = cr[r]
                 /\ cr[r].status.state = StateProcessing
        /\ (t.pc # "set_ready" /\ u.pc = "set_ready")
              => /\ t.pc = "poll"
                 /\ JobOutcome(job[TargetNamespace(t.obj)].conditions).ready
        /\ (t.pc = "set_ready" /\ u.pc = "idle" /\ result'[r] = "done")
              => /\ cr'[r].status.state = StateReady
                 /\ cr'[r].status.installedVersion = cr'[r].spec.driverVersion
                 /\ Len(cr'[r].status.conditions) = 2
                 /\ AllTrue(cr'[r].status.conditions)
                 /\ {cr'[r].status.conditions[i].type : i \in 1..2}
                      = {conditionTypeReady, conditionTypeInstalled}
    ]_vars

\* the end of a happy path in the default namespace: the first generation
\* is Ready, its Job was created by the controller and the tick returned
C11_Witness ==
    /\ cr["a"].exists /\ cr["a"].spec.namespace = "" /\ cr["a"].generation = 1
    /\ ContainsFinalizer(cr["a"])
    /\ Status("a").state = StateReady
    /\ Status("a").installedVersion = DefaultDriverVersion
    /\ ns["gpu-operator"] /\ sa["gpu-operator"]
    /\ job["gpu-operator"] = [Submitted("a", 1) EXCEPT
                                 !.conditions = <<JobCondition(JobComplete, "")>>]
    /\ ~ns["custom"]
    /\ result["a"] = "done" /\ tick["a"].pc = "idle"

\* C12: a status write whose state is Ready or Error sets
\* status.observedGeneration to the current generation, a Processing write
\* leaves it as it was; so after a tick that ends in Error for generation g
\* the stored status.observedGeneration is g.
C12_ObservedGenerationAdvance ==
    [][\A r \in Resources :
        (cr[r].exists /\ cr'[r].exists /\ cr'[r].status # cr[r].status)
        => /\ (cr'[r].status.state \in {StateReady, StateError}
                 => cr'[r].status.observedGeneration = cr'[r].generation)
           /\ (cr'[r].status.state = StateProcessing
                 => cr'[r].status.observedGeneration
                      = cr[r].status.observedGeneration)
    ]_vars

\* C13: the controller's finalizer leaves a resource only by the finalizer
\* update of a tick on a resource marked for deletion, and that update is
\* reached only from the submission of the uninstall Job in the same tick;
\* a stored resource that is not marked for deletion and has a status
\* written by the controller, a dependent created by the tick in flight or
\* an install Job owned by it, carries the finalizer.
C13_FinalizerInvariant ==
    [][\A r \in Resources :
        LET t == tick[r]
            u == tick'[r]
        IN
        /\ (ContainsFinalizer(cr[r]) /\ ~ContainsFinalizer(cr'[r]))
              => /\ cr[r].deletionTimestamp
                 /\ t.pc = "remove_finalizer" /\ u.pc = "idle"
        /\ (t.pc # "remove_finalizer" /\ u.pc = "remove_finalizer")
              => t.pc = "create_uninstall"
        /\ (/\ cr'[r].exists /\ ~cr'[r].deletionTimestamp
            /\ \/ cr'[r].status # EmptyStatus
               \/ u.creates > 0
               \/ \E n \in Namespaces : job'[n].owner = r)
              => ContainsFinalizer(cr'[r])
    ]_vars

\* the finalizer was removed after a teardown while another controller's
\* finalizer keeps the object stored
C13_Witness ==
    /\ cr["a"].exists /\ cr["a"].deletionTimestamp
    /\ cr["a"].finalizers = {foreignFinalizer}
    /\ Status("a").state = StateDeleting
    /\ uninstall["gpu-operator"] = "active"
    /\ result["a"] = "done" /\ tick["a"].pc = "idle"

\* the steps that ensure the dependents and poll the install Job
DependentSteps ==
    {"get_ns", "create_ns", "get_sa", "create_sa", "get_job", "create_job",
     "poll"}

\* C14: a tick that returns an error from persisting the finalizer, from
\* the Processing write or from a step on the dependents leaves
\* status.state = Error with a failure condition in the store.
C14_EveryErrorPersistsError ==
    [][\A r \in Resources :
        (/\ tick[r].pc \in {"add_finalizer", "set_processing", "status_error"}
         /\ tick'[r].pc = "idle" /\ result'[r] = "error"
         /\ cr'[r].exists)
        => /\ cr'[r].status.state = StateError
           /\ cr'[r].status.conditions # <<>>
           /\ cr'[r].status.conditions[1].status = ConditionFalse
    ]_vars

\* C15 as stated: the controller persists state Error only for an install
\* Job that reports Failed; a failed store call never does.
C15_OnlyJobFailureIsError ==
    [][\A r \in Resources :
        (/\ cr'[r].exists /\ cr'[r].status # cr[r].status
         /\ cr'[r].status.state = StateError)
        => IsJobFailure(cr'[r].status.conditions[1].message)
    ]_vars

\* C15, amended: a failed store call is always returned to the caller, which
\* requeues.  When it is a write of the managed resource (finalizer,
\* Processing, Ready) the tick ends with the stored resource unchanged, so it
\* persists no Error.  When it is the fetch or creation of a dependent or
\* the poll, nothing more is created and the tick makes one attempt to write
\* state Error with a failure condition, as it does for a Failed install
\* Job; that write is stored when the store accepts it.
C15_TransientFailures ==
    [][\A r \in Resources :
        LET t == tick[r]
            u == tick'[r]
        IN
        /\ (t.pc \in DependentSteps /\ u.pc \notin DependentSteps \cup {"set_ready"}
               /\ u.pc # "idle")
              => /\ u.pc = "status_error" /\ u.err # NoErr
                 /\ UNCHANGED <<cr, ns, sa, job>>
        /\ (t.pc = "status_error" /\ u.pc # "status_error")
              => /\ u.pc = "idle" /\ result'[r] = "error"
                 /\ UNCHANGED <<ns, sa, job>>
                 /\ \/ cr' = cr
                    \/ /\ CanWrite(r)
                       /\ cr'[r] = [cr[r] EXCEPT
                                      !.status = ErrorStatus(t.obj, t.err)]
                       /\ cr'[r].status.state = StateError
                       /\ cr'[r].status.conditions[1].status = ConditionFalse
        /\ (t.pc \in {"add_finalizer", "set_processing"} /\ u.pc # t.pc)
              => /\ u.pc \in {"set_processing", "get_ns", "idle"}
                 /\ u.pc = "idle"
                      => result'[r] = "error" /\ UNCHANGED <<cr, ns, sa, job>>
        /\ (t.pc = "set_ready" /\ u.pc # t.pc)
              => /\ u.pc = "idle"
                 /\ result'[r] = "error"
                      => UNCHANGED <<cr, ns, sa, job>>
    ]_vars

\* a failed Get of the namespace was persisted as Error and returned
C15_Witness ==
    /\ cr["a"].exists /\ Status("a").state = StateError
    /\ Status("a").conditions[1].message = ErrUnavailable
    /\ result["a"] = "error" /\ tick["a"].pc = "idle"

\* C16: no step of Reconcile changes the stored spec or generation (they
\* change only in a step that leaves every tick where it is and bumps the
\* generation), and a tick that ends with its copy still current leaves the
\* spec it loaded.
C16_SpecReadOnly ==
    [][\A r \in Resources :
        LET t == tick[r]
            u == tick'[r]
        IN
        /\ (cr[r].exists /\ cr'[r].exists /\ u.pc # t.pc)
              => /\ cr'[r].spec = cr[r].spec
                 /\ cr'[r].generation = cr[r].generation
        /\ (cr[r].exists /\ cr'[r].exists /\ cr'[r].spec # cr[r].spec)
              => /\ cr'[r].generation = cr[r].generation + 1
                 /\ \A q \in Resources : tick'[q].pc = tick[q].pc
        /\ (t.pc # "idle" /\ u.pc = "idle" /\ t.fresh /\ cr'[r].exists)
              => cr'[r].spec = t.obj.spec
    ]_vars

\* the controller wrote the finalizer and a Ready status on a resource whose
\* spec was edited, and the stored spec is the edited one
C16_Witness ==
    /\ cr["a"].exists /\ cr["a"].generation = 2
    /\ cr["a"].spec.driverVersion = "580"
    /\ ContainsFinalizer(cr["a"])
    /\ Status("a").state = StateReady
    /\ Status("a").observedGeneration = 2
    /\ tick["a"].pc = "idle"

\* the order of the steps of the forward path
StepOrder ==
    <<"add_finalizer", "set_processing", "get_ns", "create_ns", "get_sa",
      "create_sa", "get_job", "create_job", "poll", "set_ready">>

Rank(pc) == CHOOSE i \in DOMAIN StepOrder : StepOrder[i] = pc

ForwardSteps == {StepOrder[i] : i \in DOMAIN StepOrder}

\* C17: within a tick the forward steps run in the order finalizer,
\* Processing write, namespace, service account, install Job, poll, Ready
\* write, none entered before its predecessor's effect is in the store: the
\* finalizer and state Processing before the namespace step, the namespace
\* before the service account step, the service account before the Job
\* step, the Job before the poll, a complete Job before the Ready write.
\* Every step that creates a dependent runs on a resource that carries the
\* finalizer, and a tick whose finalizer update fails has created nothing,
\* writes no status and returns the error.
C17_StepOrder ==
    [][\A r \in Resources :
        LET t == tick[r]
            u == tick'[r]
            n == TargetNamespace(u.obj)
        IN
        /\ (t.pc \in ForwardSteps /\ u.pc \in ForwardSteps /\ u.pc # t.pc)
              => Rank(u.pc) > Rank(t.pc)
        /\ (u.pc # t.pc /\ u.pc \in ForwardSteps \ {"add_finalizer"})
              => /\ ContainsFinalizer(cr'[r])
                 /\ u.pc # "set_processing"
                      => cr'[r].status.state = StateProcessing
                 /\ Rank(u.pc) >= Rank("get_sa") => ns'[n]
                 /\ Rank(u.pc) >= Rank("get_job") => sa'[n]
                 /\ Rank(u.pc) >= Rank("poll") => job'[n].exists
                 /\ u.pc = "set_ready" => JobOutcome(job'[n].conditions).ready
        /\ (t.pc \in {"create_ns", "create_sa", "create_job"} /\ u.pc # t.pc)
              => cr[r].exists /\ ContainsFinalizer(cr[r])
        /\ (t.pc = "add_finalizer" /\ u.pc = "idle")
              => /\ t.creates = 0
                 /\ UNCHANGED <<cr, ns, sa, job>>
                 /\ result'[r] = "error"
    ]_vars

\* a tick that has created namespace, service account and install Job, in
\* that order, and stands before the poll
C17_Witness ==
    /\ tick["a"].pc = "poll" /\ tick["a"].creates = 3
    /\ ContainsFinalizer(cr["a"])
    /\ Status("a").state = StateProcessing
    /\ InstallJob("a") = Submitted("a", 1)

\* the steps of the deletion branch
DeletionSteps == {"finalize_status", "create_uninstall", "remove_finalizer"}

\* C18: a tick that loaded a resource with deletionTimestamp set runs the
\* deletion branch only: it creates no namespace, service account or
\* install Job and the only status it writes is Deleting.  When the loaded
\* resource does not carry the finalizer, the tick ends in the load itself,
\* with nothing written, and returns success.
C18_DeletionBranchOnly ==
    [][\A r \in Resources :
        LET t == tick[r]
            u == tick'[r]
        IN
        /\ (u.pc # "idle" /\ u.obj.deletionTimestamp) => u.pc \in DeletionSteps
        /\ (t.pc \in DeletionSteps /\ u.pc # t.pc)
              => /\ UNCHANGED <<ns, sa, job>>
                 /\ u.pc \in DeletionSteps \cup {"idle"}
                 /\ (cr'[r].exists /\ cr'[r].status # cr[r].status)
                      => cr'[r].status.state = StateDeleting
        /\ (/\ Load(r, "ok")
            /\ cr[r].exists /\ cr[r].deletionTimestamp
            /\ ~ContainsFinalizer(cr[r]))
              => /\ u.pc = "idle" /\ result'[r] = "done"
                 /\ UNCHANGED <<cr, ns, sa, job, uninstall>>
    ]_vars

\* a resource deleted before the controller ever touched it, kept in the
\* store by the other finalizer: the tick returned success and wrote nothing
C18_Witness ==
    /\ cr["a"].exists /\ cr["a"].deletionTimestamp
    /\ cr["a"].finalizers = {foreignFinalizer}
    /\ Status("a") = EmptyStatus
    /\ result["a"] = "done" /\ tick["a"].pc = "idle"
    /\ \A n \in Namespaces :
          ~ns[n] /\ ~sa[n] /\ ~job[n].exists /\ uninstall[n] = "absent"

\* C19: a poll that finds the install Job, found or just created, with
\* neither Complete=True nor Failed=True ends the tick in that step: when
\* the Get of the Job succeeds the tick returns a requeue after the fixed
\* delay with no error, and it changes nothing in the store: the state stays
\* Processing, observedGeneration, installedVersion and conditions stay.
C19_PendingRequeues ==
    [][\A r \in Resources :
        LET t == tick[r]
            u == tick'[r]
        IN
        (t.pc = "poll" /\ u.pc # t.pc /\ Pending(r))
        => /\ u.pc \in {"idle", "status_error"}
           /\ UNCHANGED <<cr, ns, sa, job, uninstall>>
           /\ cr[r].status.state = StateProcessing
           /\ Poll(r, "ok") => u.pc = "idle"
           /\ u.pc = "idle" => result'[r] = "requeueAfter"
    ]_vars

\* the first tick created the install Job, polled it and asked for a requeue
C19_Witness ==
    /\ result["a"] = "requeueAfter" /\ tick["a"].pc = "idle"
    /\ InstallJob("a") = Submitted("a", 1)
    /\ Status("a") = [EmptyStatus EXCEPT !.state = StateProcessing]
    /\ ensured["a"] = 1

\* C20: a Ready write that the store accepts, on a resource of generation g
\* and spec.driverVersion v, leaves state Ready, observedGeneration g,
\* installedVersion v and exactly the conditions Ready=True and
\* Installed=True, in that order, each with observedGeneration g; the tick
\* then returns success without a requeue.  No other step writes Ready.
C20_ReadyWrite ==
    [][\A r \in Resources :
        LET t == tick[r]
            u == tick'[r]
            g == cr[r].generation
            v == cr[r].spec.driverVersion
            st == cr'[r].status
        IN
        /\ (SetReady(r, "ok") /\ CanWrite(r))
              => /\ cr'[r].generation = g /\ cr'[r].spec.driverVersion = v
                 /\ st.state = StateReady
                 /\ st.observedGeneration = g
                 /\ st.installedVersion = v
                 /\ Len(st.conditions) = 2
                 /\ st.conditions[1].type = conditionTypeReady
                 /\ st.conditions[2].type = conditionTypeInstalled
                 /\ \A i \in 1..2 :
                       /\ st.conditions[i].status = ConditionTrue
                       /\ st.conditions[i].observedGeneration = g
                 /\ u.pc = "idle" /\ result'[r] = "done"
        /\ (cr'[r].exists /\ st # cr[r].status /\ st.state = StateReady)
              => t.pc = "set_ready"
    ]_vars

\* the Ready write for the second generation and the other driver version
C20_Witness ==
    /\ cr["a"].exists /\ cr["a"].generation = 2
    /\ cr["a"].spec.driverVersion = "580"
    /\ Status("a").state = StateReady
    /\ Status("a").installedVersion = "580"
    /\ Len(Status("a").conditions) = 2
    /\ Status("a").conditions[2].observedGeneration = 2
    /\ result["a"] = "done" /\ tick["a"].pc = "idle"

\* ------------------------------------------------------------ C21 .. C30
\* condition lists a Job can carry, terminal or not, True or False
MaxConditions == 2

JobConditionRecords ==
    [type : {JobComplete, JobFailed, "Suspended"},
     status : {ConditionTrue, ConditionFalse},
     message : Messages]

JobConditionLists ==
    UNION {[1..k -> JobConditionRecords] : k \in 0..MaxConditions}

\* what isJobCompleted reports: (true, nil), (false, err) or (false, nil)
PollOutcome(j) ==
    IF ~j.exists THEN "Pending"
    ELSE LET out == JobOutcome(j.conditions) IN
         IF out.err # NoErr THEN "Failed"
         ELSE IF out.ready THEN "Succeeded" ELSE "Pending"

\* C21: the poll reports exactly one of Pending, Succeeded, Failed for every
\* condition list, a missing Job is Pending, and the terminal outcomes stay:
\* after a poll returned Succeeded for the install of a namespace (the
\* resource carries an installedVersion, which only a Ready write after such
\* a poll sets), every later poll for it that reaches the store returns
\* Succeeded.
C21_PollOutcomes ==
    [][/\ \A conds \in JobConditionLists :
            LET out == JobOutcome(conds) IN ~(out.ready /\ out.err # NoErr)
       /\ PollOutcome(NoJob) = "Pending"
       /\ \A r \in Resources :
            (Poll(r, "ok") /\ tick'[r].pc # tick[r].pc
                /\ cr[r].status.installedVersion # "")
               => tick'[r].pc = "set_ready"
    ]_vars

\* the steps that write the managed resource and return a rejected write
ResourceWrites ==
    {"add_finalizer", "set_processing", "set_ready", "remove_finalizer"}

\* C22: a finalizer update (add or removal) or a Processing or Ready status
\* write made from a stale copy leaves the stored resource, with the newer
\* version, exactly as it is, so also not in state Error on account of the
\* conflict; the tick ends there and returns an error; and every tick starts
\* from a load of the stored resource.
C22_ConflictIsTransient ==
    [][\A r \in Resources :
        LET t == tick[r]
            u == tick'[r]
        IN
        /\ (t.pc \in ResourceWrites /\ u.pc # t.pc /\ cr[r].exists /\ ~t.fresh)
              => /\ cr' = cr
                 /\ UNCHANGED <<ns, sa, job, uninstall>>
                 /\ u.pc = "idle" /\ result'[r] = "error"
        /\ (t.pc = "idle" /\ u.pc # "idle")
              => u.obj = cr[r] /\ u.fresh
    ]_vars

\* a tick that loaded generation 1 stands at its Ready write while the store
\* holds the edited generation 2: the write it makes next is the stale one
C22_Witness ==
    /\ tick["a"].pc = "set_ready" /\ ~tick["a"].fresh
    /\ tick["a"].obj.generation = 1
    /\ cr["a"].exists /\ cr["a"].generation = 2
    /\ cr["a"].spec.driverVersion = "580"
    /\ Status("a").state = StateProcessing

\* C23: teardown is re-entrant.  A tick that loads a resource marked for
\* deletion and carrying the finalizer runs the teardown, whatever an
\* earlier tick left behind; its submission of the uninstall Job, when a Job
\* of that name is already there, changes nothing and goes on to the
\* finalizer update (a namespace holds one uninstall Job at most, the name
\* being fixed); and the finalizer update, when the store accepts it,
\* removes the finalizer.
C23_TeardownReentrant ==
    [][\A r \in Resources :
        LET t == tick[r]
            u == tick'[r]
            n == TargetNamespace(t.obj)
        IN
        /\ (/\ Load(r, "ok") /\ cr[r].exists /\ cr[r].deletionTimestamp
            /\ ContainsFinalizer(cr[r]))
              => u.pc = "finalize_status"
        /\ (t.pc = "finalize_status" /\ u.pc # t.pc) => u.pc = "create_uninstall"
        /\ (t.pc = "create_uninstall" /\ u.pc # t.pc)
              => /\ u.pc = "remove_finalizer"
                 /\ uninstall[n] # "absent" => uninstall' = uninstall
                 /\ \A m \in Namespaces \ {n} : uninstall'[m] = uninstall[m]
        /\ (RemoveFinalizer(r, "ok") /\ CanWrite(r))
              => /\ ~ContainsFinalizer(cr'[r])
                 /\ u.pc = "idle" /\ result'[r] = "done"
    ]_vars

\* a second teardown: the last tick returned an error, the uninstall Job of
\* an earlier tick is there, and the tick in flight is about to submit it
C23_Witness ==
    /\ tick["a"].pc = "create_uninstall"
    /\ uninstall[TargetNamespace(tick["a"].obj)] = "active"
    /\ result["a"] = "error"
    /\ cr["a"].exists /\ cr["a"].deletionTimestamp
    /\ ContainsFinalizer(cr["a"])
    /\ Status("a").state = StateDeleting

\* Ready has been persisted for the generation the resource still has
\* (only the Ready write sets status.observedGeneration)
ReachedReady(r) ==
    /\ cr[r].exists
    /\ cr[r].status.observedGeneration = cr[r].generation

\* C24: the controller creates no install Job for a resource that has
\* reached Ready for its current generation, also not in a tick that runs
\* after the finished Job has expired.
C24_InstallOncePerGeneration ==
    [][\A r \in Resources :
        LET n == TargetNamespace(tick[r].obj) IN
        (tick[r].pc = "create_job" /\ tick'[r].pc = "poll"
            /\ job'[n] # job[n])
        => ~ReachedReady(r)
    ]_vars

\* C25: a persisted Ready for the current generation stays Ready in every
\* step that neither changes the spec nor marks the resource for deletion.
C25_ReadyIsStable ==
    [][\A r \in Resources :
        (/\ ReachedReady(r) /\ Status(r).state = StateReady
         /\ ~cr[r].deletionTimestamp
         /\ cr'[r].exists /\ ~cr'[r].deletionTimestamp
         /\ cr'[r].spec = cr[r].spec /\ cr'[r].generation = cr[r].generation)
        => cr'[r].status.state = StateReady
    ]_vars

\* C26: a Ready write stores observedGeneration g only on the success of an
\* install Job that was submitted for generation g: the controller's own
\* install Job standing in the namespace at that write is one created by a
\* tick that had loaded generation g, not one left from an earlier
\* generation.
C26_ReadyForCurrentInstall ==
    [][\A r \in Resources :
        LET j == job[TargetNamespace(tick[r].obj)] IN
        (/\ tick[r].pc = "set_ready"
         /\ cr'[r].exists /\ cr'[r].status # cr[r].status
         /\ cr'[r].status.state = StateReady
         /\ j.exists /\ j.owner = r)
        => j.gen = cr'[r].status.observedGeneration
    ]_vars

\* a step of r's tick creates a dependent
CreatesDependent(r) ==
    /\ tick[r].pc \in {"create_ns", "create_sa", "create_job"}
    /\ tick'[r].pc # tick[r].pc
    /\ <<ns, sa, job>>' # <<ns, sa, job>>

\* C27 as stated: no step of a tick on a resource whose stored
\* deletionTimestamp is set creates the namespace, the service account or
\* the install Job, or persists state Processing, Ready or Error.
C27_NoForwardWorkOnDeleted ==
    [][\A r \in Resources :
        (cr[r].exists /\ cr[r].deletionTimestamp)
        => /\ ~CreatesDependent(r)
           /\ (cr'[r].exists /\ cr'[r].status # cr[r].status)
                 => cr'[r].status.state = StateDeleting
    ]_vars

\* C27, amended: on a resource whose stored deletionTimestamp is set the
\* controller persists no status but Deleting, under every interleaving; a
\* namespace, service account or install Job is created for it only by a
\* tick that loaded the resource before the delete request and whose copy
\* is therefore stale, never by a tick that loaded it afterwards.
C27_DeletedOnlyStaleCreates ==
    [][\A r \in Resources :
        (cr[r].exists /\ cr[r].deletionTimestamp)
        => /\ CreatesDependent(r)
                 => ~tick[r].obj.deletionTimestamp /\ ~tick[r].fresh
           /\ (cr'[r].exists /\ cr'[r].status # cr[r].status)
                 => cr'[r].status.state = StateDeleting
           /\ (tick[r].pc = "idle" /\ tick'[r].pc # "idle")
                 => tick'[r].pc \in DeletionSteps
    ]_vars

\* the delete request arrived while the first tick stood before its first
\* Create: what the tick creates from here on is created for a resource
\* that is marked for deletion
C27_Witness ==
    /\ cr["a"].exists /\ cr["a"].deletionTimestamp
    /\ tick["a"].pc = "create_ns" /\ tick["a"].creates = 0
    /\ ~tick["a"].obj.deletionTimestamp /\ ~tick["a"].fresh
    /\ Status("a").state = StateProcessing

\* --------------------------- two resources and one installation namespace
\* both GpuOperators exist and leave spec.namespace empty, so both target
\* "gpu-operator"; no history is kept
TwoInit ==
    /\ cr = [r \in Resources |-> NewGpuOperator("", DefaultDriverVersion)]
    /\ ns = [n \in Namespaces |-> FALSE]
    /\ sa = [n \in Namespaces |-> FALSE]
    /\ job = [n \in Namespaces |-> NoJob]
    /\ uninstall = [n \in Namespaces |-> "absent"]
    /\ tick = [r \in Resources |-> IdleTick]
    /\ result = [r \in Resources |-> "none"]
    /\ ensured = [r \in Resources |-> 0]
    /\ recording = FALSE

\* the ticks of both resources interleave; users delete, Jobs finish, owned
\* Jobs go with their owner
TwoNext ==
    \/ \E r \in Resources : Reconcile(r)
    \/ \E r \in Resources : DeleteRequest(r)
    \/ \E n \in Namespaces : JobSucceeds(n)
    \/ \E n \in Namespaces : GarbageCollect(n)
    \/ \E n \in Namespaces : UninstallFinishes(n)

TwoSpec == TwoInit /\ [][TwoNext]_vars

\* C28: a resource is declared Ready only on an install Job that was
\* submitted for it, and no resource stands persisted as Ready, unmarked for
\* deletion, in a namespace where the teardown of another resource has
\* submitted the uninstall Job.
C28_Isolation ==
    [][\A r \in Resources :
        LET j == job[TargetNamespace(tick[r].obj)] IN
        /\ (/\ tick[r].pc = "set_ready"
            /\ cr'[r].exists /\ cr'[r].status # cr[r].status
            /\ cr'[r].status.state = StateReady)
              => j.exists /\ j.owner = r
        /\ (/\ cr'[r].exists /\ ~cr'[r].deletionTimestamp
            /\ cr'[r].status.state = StateReady)
              => uninstall'[TargetNamespace(cr'[r])] = "absent"
    ]_vars

\* the values of status.state, the empty one of a new resource included
States == {"", StateProcessing, StateReady, StateError, StateDeleting}

\* the changes of the persisted state the claim allows
AllowedTransitions ==
    {<<"", StateProcessing>>, <<StateReady, StateProcessing>>,
     <<StateError, StateProcessing>>, <<StateProcessing, StateReady>>,
     <<StateProcessing, StateError>>}
    \cup {<<st, StateDeleting>> : st \in States \ {StateDeleting}}

\* C29: the persisted status.state changes only along (empty)->Processing,
\* Ready->Processing, Error->Processing, Processing->Ready,
\* Processing->Error and any->Deleting, and a status whose state is Deleting
\* is never changed again.
C29_StateTransitions ==
    [][\A r \in Resources :
        (cr[r].exists /\ cr'[r].exists)
        => /\ cr'[r].status.state # cr[r].status.state
                 => <<cr[r].status.state, cr'[r].status.state>>
                        \in AllowedTransitions
           /\ cr[r].status.state = StateDeleting
                 => cr'[r].status = cr[r].status
    ]_vars

\* the state went (empty), Processing, Ready, Processing, Error, Processing:
\* the Processing status still carries the installedVersion of the Ready
\* write and the failure condition of the Error write
C29_Witness ==
    /\ cr["a"].exists
    /\ Status("a").state = StateProcessing
    /\ Status("a").installedVersion = DefaultDriverVersion
    /\ Len(Status("a").conditions) = 1
    /\ Status("a").conditions[1].status = ConditionFalse

\* C30: a stored resource whose status.state is Deleting has its
\* deletionTimestamp set, and the write that stores Deleting leaves
\* observedGeneration and installedVersion (and the conditions) as stored.
C30_DeletingMarker ==
    [][\A r \in Resources :
        /\ (cr'[r].exists /\ cr'[r].status.state = StateDeleting)
              => cr'[r].deletionTimestamp
        /\ (/\ cr[r].exists /\ cr'[r].exists
            /\ cr[r].status.state # StateDeleting
            /\ cr'[r].status.state = StateDeleting)
              => /\ tick[r].pc = "finalize_status"
                 /\ cr'[r].status.observedGeneration
                       = cr[r].status.observedGeneration
                 /\ cr'[r].status.installedVersion
                       = cr[r].status.installedVersion
                 /\ cr'[r].status.conditions = cr[r].status.conditions
    ]_vars

\* Deleting was written over a Ready status: what the Ready write stored
\* is still there
C30_Witness ==
    /\ cr["a"].exists /\ cr["a"].deletionTimestamp
    /\ Status("a") = [ReadyStatus(cr["a"]) EXCEPT !.state = StateDeleting]
    /\ Status("a").observedGeneration = 1

\* ----------------------------------------------------------- convergence
\* the namespace of the README's sample resource; it installs into
\* "gpu-operator"
SampleNamespace == "default"

\* one GpuOperator with empty spec.namespace, stored in the namespace it
\* installs into or, as in the README, in another one; no history is kept
ConvergeInit ==
    /\ \E m \in {"gpu-operator", SampleNamespace} :
          cr = [r \in Resources |->
                   IF r = "a"
                   THEN [NewGpuOperator("", DefaultDriverVersion) EXCEPT
                            !.namespace = m]
                   ELSE NoGpuOperator]
    /\ ns = [n \in Namespaces |-> FALSE]
    /\ sa = [n \in Namespaces |-> FALSE]
    /\ job = [n \in Namespaces |-> NoJob]
    /\ uninstall = [n \in Namespaces |-> "absent"]
    /\ tick = [r \in Resources |-> IdleTick]
    /\ result = [r \in Resources |-> "none"]
    /\ ensured = [r \in Resources |-> 0]
    /\ recording = FALSE

\* the environment of a successful installation: every store call is
\* answered, the install Job never fails and is not removed before it has
\* been polled; a write can still meet a conflict
ConvergeNext ==
    \/ \E r \in Resources : ReconcileStep(r, "ok")
    \/ \E r \in Resources : SpecEdit(r)
    \/ \E r \in Resources : DeleteRequest(r)
    \/ \E n \in Namespaces : JobSucceeds(n)
    \/ \E n \in Namespaces : GarbageCollect(n)
    \/ \E n \in Namespaces : UninstallFinishes(n)
    \/ \E n \in Namespaces : UninstallExpire(n)
    \/ \E n \in Namespaces : ConcurrentCreate(n)

\* a running tick takes its next step and a returned tick is requeued; a
\* pending install Job comes to report Complete
ConvergeFairness ==
    /\ \A r \in Resources : WF_vars(ReconcileStep(r, "ok"))
    /\ \A n \in Namespaces : WF_vars(JobSucceeds(n))

ConvergeSpec == ConvergeInit /\ [][ConvergeNext]_vars /\ ConvergeFairness

\* the resource is stored and not marked for deletion
Live(r) == cr[r].exists /\ ~cr[r].deletionTimestamp

\* C31: with store calls that succeed again and again, an install Job that
\* comes to report Complete and ticks that are requeued fairly, a resource
\* that is not deleted and whose spec is no longer changed comes to have
\* status.state = Ready with observedGeneration = generation persisted.
C31_Convergence ==
    \A r \in Resources :
        Live(r) ~> (~Live(r) \/ (Status(r).state = StateReady /\ ReachedReady(r)))

====
